---------------------------- MODULE Spec2Model ----------------------------
(***************************************************************************)
(* A model of tinyraytracer.cpp: the signed-distance scene field, the      *)
(* sphere-tracing ray marcher with its checkerboard ground plane, the      *)
(* recursive shader cast_ray and the parallel renderer.                    *)
(*                                                                         *)
(* Floats are fixed-point integers.  One model unit is half of EPSILON     *)
(* (0.0005), so EPSILON = 2 and 1.0f = ONE = 2000.  Every product and      *)
(* quotient rounds to the nearest unit, as a float operation rounds to the *)
(* nearest representable value.                                            *)
(*                                                                         *)
(* A value that the code names in a local variable and reads several times *)
(* is a parameter of an auxiliary operator here (its name says which line  *)
(* of the function it continues).                                          *)
(***************************************************************************)
EXTENDS Integers, Sequences, FiniteSets, TLC

(***************************************************************************)
(* Program constants (lines 11-13) in model units.                         *)
(***************************************************************************)
EPSILON == 2
ONE == 1000 * EPSILON
MAX_DISTANCE == 9999 * ONE
MAX_MARCHING_STEPS == 128
\* std::numeric_limits<float>::max()
FLT_MAX == 2147483647

(***************************************************************************)
(* Scalar arithmetic of float, on fixed-point integers.                    *)
(***************************************************************************)
Abs(x) == IF x < 0 THEN -x ELSE x
Sign(x) == IF x < 0 THEN -1 ELSE 1
Max(a, b) == IF a < b THEN b ELSE a
Min(a, b) == IF b < a THEN b ELSE a

\* a / b on raw integers 0 <= a, 0 < b, rounded to nearest
RDivAbs(a, b) == (2 * a + b) \div (2 * b)

\* a / b on raw integers, rounded to nearest (b # 0)
RDiv(a, b) == Sign(a) * Sign(b) * RDivAbs(Abs(a), Abs(b))

\* (int) conversion of the quotient a / b: truncation toward zero
TruncDiv(a, b) == Sign(a) * Sign(b) * (Abs(a) \div Abs(b))

\* big * small for 0 <= small <= big; big is split so that no intermediate
\* value leaves the machine integers
MulAbs(big, small) == (big \div ONE) * small + RDivAbs((big % ONE) * small, ONE)

\* float product a * b
Mul(a, b) ==
    Sign(a) * Sign(b) * MulAbs(Max(Abs(a), Abs(b)), Min(Abs(a), Abs(b)))

\* a / b for 0 <= a, 0 < b; the whole part is taken first
FDivAbs(a, b) == (a \div b) * ONE + RDivAbs((a % b) * ONE, b)

\* float quotient a / b (b # 0)
FDiv(a, b) == Sign(a) * Sign(b) * FDivAbs(Abs(a), Abs(b))

\* r + d * step is not above the square root of n (nor above 46340, the
\* largest root of a machine integer)
Fits(n, r, step, d) ==
    r + d * step <= 46340 /\ (r + d * step) * (r + d * step) <= n

\* the root of n down to a multiple of step, from the one r down to a
\* multiple of 16 * step
SqrtDigit(n, r, step) == r + step * Cardinality({d \in 1..15 : Fits(n, r, step, d)})

\* the root r rounded down, rounded to nearest
SqrtRound(n, r) == IF n - r * r > r THEN r + 1 ELSE r

\* integer square root of a raw integer 0 <= n < 2^31, rounded to nearest,
\* found one hexadecimal digit at a time
ISqrt(n) ==
    SqrtRound(n, SqrtDigit(n, SqrtDigit(n, SqrtDigit(n, SqrtDigit(n, 0, 4096), 256), 16), 1))

\* sqrtf(x) of a fixed-point x >= 0
Sqrtf(x) == ISqrt(x * ONE)

\* powf(x, n) from h = powf(x, n / 2)
PowfSquare(h, x, n) == IF n % 2 = 0 THEN Mul(h, h) ELSE Mul(Mul(h, h), x)

\* powf(x, n) for 0 <= x and an integral exponent n >= 0, by squaring
RECURSIVE Powf(_, _)
Powf(x, n) == IF n = 0 THEN ONE ELSE PowfSquare(Powf(x, n \div 2), x, n)

(***************************************************************************)
(* Vec3f of geometry.h: triples of floats.                                 *)
(***************************************************************************)
Vec3f(x, y, z) == <<x, y, z>>
ZeroVec == <<0, 0, 0>>
VAdd(a, b) == <<a[1] + b[1], a[2] + b[2], a[3] + b[3]>>
VSub(a, b) == <<a[1] - b[1], a[2] - b[2], a[3] - b[3]>>
VNeg(a) == <<-a[1], -a[2], -a[3]>>
VScale(a, s) == [i \in 1..3 |-> Mul(a[i], s)]
Products(a, b) == [i \in 1..3 |-> Mul(a[i], b[i])]
Sum3(p) == p[1] + p[2] + p[3]
Dot(a, b) == Sum3(Products(a, b))

\* |v| with the components scaled down by k and the root scaled back
NormScaled(v, k) == k * ISqrt(Sum3([i \in 1..3 |-> RDiv(v[i], k) * RDiv(v[i], k)]))

\* |v|: sqrt(x*x + y*y + z*z).  A long vector is scaled down first, which
\* keeps the relative error of a float; three squares of 26000 still sum
\* below 2^31
Norm(v) == NormScaled(v, Max(Abs(v[1]), Max(Abs(v[2]), Abs(v[3]))) \div 26000 + 1)

\* v * (1 / n); the zero vector has no direction and stays zero
Over(v, n) == IF n = 0 THEN ZeroVec ELSE [i \in 1..3 |-> RDiv(v[i] * ONE, n)]

Normalize(v) == Over(v, Norm(v))

(***************************************************************************)
(* Light, Material and the sdf_model Sphere (lines 15-76).                 *)
(***************************************************************************)
Light(p, i) == [position |-> p, intensity |-> i]

Material(r, a, color, spec) ==
    [refractive_index |-> r, albedo |-> a, diffuse_color |-> color,
     specular_exponent |-> spec]

\* Material(): refractive_index 1, albedo (1,0,0,0), black, exponent 0
DefaultMaterial == Material(ONE, <<ONE, 0, 0, 0>>, ZeroVec, 0)

Sphere(c, r, m) == [center |-> c, radius |-> r, material |-> m]

\* Sphere::sdf
Sdf(model, point) == Norm(VSub(point, model.center)) - model.radius

\* NormalOf writing the direction before it tests the length
NormalOfEager(point_to_center, n) ==
    [ok |-> ~(Abs(Norm(point_to_center)) < EPSILON), n |-> Normalize(point_to_center)]

\* lines 55-60 on point_to_center: [ok, n]; n is the caller's vector when
\* the query fails
NormalOf(point_to_center, n) ==
    IF Abs(Norm(point_to_center)) < EPSILON
    THEN [ok |-> FALSE, n |-> n]
    ELSE [ok |-> TRUE, n |-> Normalize(point_to_center)]

\* Sphere::try_get_normal
TryGetNormal(model, point, n) == NormalOf(VSub(point, model.center), n)

(***************************************************************************)
(* fresnel, reflect, refract (lines 78-110).  kr is a record: finite with  *)
(* its value, or not finite (the NaN or infinity of a division by zero),   *)
(* which no comparison "kr < 1" accepts.                                   *)
(***************************************************************************)
Clamp(x, lo, hi) == Max(lo, Min(hi, x))

Finite(kr) == [finite |-> TRUE, kr |-> kr]
NotFinite == [finite |-> FALSE, kr |-> 0]

\* line 94
FresnelMean(Rs, Rp) == Finite(RDiv(Mul(Rs, Rs) + Mul(Rp, Rp), 2))

\* lines 92-93 on cosi = fabsf(cosi), with the two denominators
FresnelRatios(cosi, etai, etat, cost, sden, pden) ==
    IF sden = 0 \/ pden = 0 THEN NotFinite
    ELSE FresnelMean(FDiv(Mul(etat, cosi) - Mul(etai, cost), sden),
                     FDiv(Mul(etai, cosi) - Mul(etat, cost), pden))

\* lines 90-93
FresnelCost(cosi, etai, etat, cost) ==
    FresnelRatios(cosi, etai, etat, cost,
                  Mul(etat, cosi) + Mul(etai, cost),
                  Mul(etai, cosi) + Mul(etat, cost))

\* lines 86-95
FresnelSint(cosi, etai, etat, sint) ==
    IF sint >= ONE THEN Finite(ONE)
    ELSE FresnelCost(Abs(cosi), etai, etat, Sqrtf(Max(0, ONE - Mul(sint, sint))))

\* line 84 on root = sqrtf(max(0, 1 - cosi * cosi)).  With etat = 0 the
\* quotient etai / etat is +infinity: times a positive root sint is infinity
\* (so kr = 1), times zero it is NaN, and so is everything after it
FresnelRoot(cosi, etai, etat, root) ==
    IF etat = 0
    THEN IF root > 0 THEN Finite(ONE) ELSE NotFinite
    ELSE FresnelSint(cosi, etai, etat, Mul(FDiv(etai, etat), root))

\* lines 81-84: etai = 1, etat = ior, swapped when cosi > 0
FresnelCosi(cosi, ior) ==
    FresnelRoot(cosi, IF cosi > 0 THEN ior ELSE ONE, IF cosi > 0 THEN ONE ELSE ior,
                Sqrtf(Max(0, ONE - Mul(cosi, cosi))))

\* fresnel: the kr it leaves
Fresnel(I, N, ior) == FresnelCosi(Clamp(Dot(I, N), -ONE, ONE), ior)

\* the test "kr < 1" of cast_ray
KrBelowOne(f) == f.finite /\ f.kr < ONE

Reflect(I, N) == VSub(I, VScale(VScale(N, 2 * ONE), Dot(I, N)))

\* line 109
RefractK(I, N, eta, cosi, k) ==
    IF k < 0 THEN Vec3f(ONE, 0, 0)
    ELSE VAdd(VScale(I, eta), VScale(N, Mul(eta, cosi) - Sqrtf(k)))

\* lines 107-109
RefractEta(I, N, eta, cosi) ==
    RefractK(I, N, eta, cosi, ONE - Mul(Mul(eta, eta), ONE - Mul(cosi, cosi)))

RECURSIVE Refract(_, _, _, _)
\* lines 106-109
RefractCosi(I, N, eta_t, eta_i, cosi) ==
    IF cosi < 0 THEN Refract(I, VNeg(N), eta_i, eta_t)
    ELSE RefractEta(I, N, FDiv(eta_i, eta_t), cosi)

Refract(I, N, eta_t, eta_i) ==
    RefractCosi(I, N, eta_t, eta_i, -Max(-ONE, Min(ONE, Dot(I, N))))

(***************************************************************************)
(* scene_sdf (lines 112-129).  A model pointer is its index in the list;   *)
(* nullptr is 0.                                                           *)
(***************************************************************************)
NullModel == 0

\* Closer without the test of line 121 that skips negative distances
CloserSigned(best, dist, k) ==
    IF best.dist > dist THEN [dist |-> dist, hit_model |-> k] ELSE best

\* lines 119-126: min_dist and hit_model after the model k at distance dist
Closer(best, dist, k) ==
    IF dist < 0 THEN best
    ELSE IF best.dist > dist THEN [dist |-> dist, hit_model |-> k]
    ELSE best

RECURSIVE SceneSdfLoop(_, _, _, _)
SceneSdfLoop(point, models, k, best) ==
    IF k > Len(models) THEN best
    ELSE SceneSdfLoop(point, models, k + 1, Closer(best, Sdf(models[k], point), k))

SceneSdf(point, models) ==
    SceneSdfLoop(point, models, 1, [dist |-> MAX_DISTANCE, hit_model |-> NullModel])

(***************************************************************************)
(* ray_marching (lines 131-170).                                           *)
(***************************************************************************)
\* lines 139-150 of one iteration, on s = scene_sdf(orig + dir * depth).
\* The loop state m: the depth reached, the iterations done and how the
\* loop has ended ("run" while it has not, "hit" on a primitive hit,
\* "break" when no primitive qualified)
MarchOn(m, s) ==
    IF s.hit_model = NullModel
    THEN [m EXCEPT !.exit = "break"]
    ELSE IF s.dist < EPSILON
    THEN [exit |-> "hit", depth |-> m.depth + s.dist, hit_model |-> s.hit_model,
          steps |-> m.steps]
    ELSE [m EXCEPT !.depth = m.depth + s.dist, !.steps = m.steps + 1]

\* one iteration of the marching loop
MarchStep(orig, dir, models, m) ==
    IF m.exit # "run" THEN m
    ELSE MarchOn(m, SceneSdf(VAdd(orig, VScale(dir, m.depth)), models))

RECURSIVE MarchSteps(_, _, _, _, _)
\* the remaining n iterations after the state half
MarchRest(orig, dir, models, half, n) ==
    IF half.exit # "run" THEN half ELSE MarchSteps(orig, dir, models, half, n)

\* n iterations of the loop, the first half before the second
MarchSteps(orig, dir, models, m, n) ==
    IF n = 0 THEN m
    ELSE IF n = 1 THEN MarchStep(orig, dir, models, m)
    ELSE MarchRest(orig, dir, models,
                   MarchSteps(orig, dir, models, m, n \div 2), n - n \div 2)

\* "budget" when MAX_MARCHING_STEPS iterations ended neither way
MarchEnd(m) == IF m.exit = "run" THEN [m EXCEPT !.exit = "budget"] ELSE m

\* the whole loop of lines 133-155
MarchLoop(orig, dir, models) ==
    MarchEnd(MarchSteps(orig, dir, models,
                        [exit |-> "run", depth |-> EPSILON, hit_model |-> NullModel,
                         steps |-> 0],
                        MAX_MARCHING_STEPS))

\* n / 10 as a float
Tenths(n) == (n * ONE) \div 10

LightGray == Vec3f(Tenths(3), Tenths(3), Tenths(3))
Brown == Vec3f(Tenths(3), Tenths(2), Tenths(1))

\* TileColor rounding both halves down
TileColorFloor(hit) ==
    IF ((hit[1] + 2000 * ONE) \div (2 * ONE) + hit[3] \div (2 * ONE)) % 2 = 1
    THEN LightGray
    ELSE Brown

\* line 165: the colour of the checkerboard tile under a ground-plane hit
TileColor(hit) ==
    IF (TruncDiv(hit[1] + 2000 * ONE, 2 * ONE) + TruncDiv(hit[3], 2 * ONE)) % 2 = 1
    THEN LightGray
    ELSE Brown

\* what ray_marching returns and leaves in its outputs hit, N and material
\* (each the caller's own value where the code does not write it), with how
\* the loop ended
Marched(ok, hit, N, material, m, normal_ok, plane) ==
    [ok |-> ok, hit |-> hit, N |-> N, material |-> material,
     exit |-> m.exit, steps |-> m.steps, depth |-> m.depth,
     hit_model |-> m.hit_model, normal_ok |-> normal_ok, plane |-> plane]

\* lines 161-169 on the plane distance d and the point pt
PlaneAt(d, pt, hit, N, material, m) ==
    IF d > 0 /\ Abs(pt[1]) < 10 * ONE /\ pt[3] < -10 * ONE /\ pt[3] > -30 * ONE
    THEN Marched(Min(MAX_DISTANCE, d) < 1000 * ONE, pt, Vec3f(0, ONE, 0),
                 [material EXCEPT !.diffuse_color = TileColor(pt)], m, TRUE, TRUE)
    ELSE Marched(Min(MAX_DISTANCE, FLT_MAX) < 1000 * ONE, hit, N, material, m,
                 TRUE, FALSE)

\* lines 159-160
PlaneDistance(orig, dir, d, hit, N, material, m) ==
    PlaneAt(d, VAdd(orig, VScale(dir, d)), hit, N, material, m)

\* lines 157-169: the checkerboard plane y = -4
GroundPlane(orig, dir, hit, N, material, m) ==
    IF Abs(dir[2]) > EPSILON
    THEN PlaneDistance(orig, dir, FDiv(-(orig[2] + 4 * ONE), dir[2]), hit, N,
                       material, m)
    ELSE Marched(Min(MAX_DISTANCE, FLT_MAX) < 1000 * ONE, hit, N, material, m,
                 TRUE, FALSE)

\* lines 146-149 on g = try_get_normal(hit, N)
PrimitiveNormal(h, g, model, m) == Marched(TRUE, h, g.n, model.material, m, g.ok, FALSE)

\* lines 145-149
PrimitiveHit(h, N, model, m) ==
    PrimitiveNormal(h, TryGetNormal(model, h, N), model, m)

\* AfterLoop giving up when the step budget is exhausted
AfterLoopGiveUp(orig, dir, models, hit, N, material, m) ==
    IF m.exit = "hit"
    THEN PrimitiveHit(VAdd(orig, VScale(dir, m.depth)), N, models[m.hit_model], m)
    ELSE IF m.exit = "budget"
    THEN Marched(FALSE, hit, N, material, m, TRUE, FALSE)
    ELSE GroundPlane(orig, dir, hit, N, material, m)

\* ray_marching after its loop ended as m
AfterLoop(orig, dir, models, hit, N, material, m) ==
    IF m.exit = "hit"
    THEN PrimitiveHit(VAdd(orig, VScale(dir, m.depth)), N, models[m.hit_model], m)
    ELSE GroundPlane(orig, dir, hit, N, material, m)

RayMarching(orig, dir, models, hit, N, material) ==
    AfterLoop(orig, dir, models, hit, N, material, MarchLoop(orig, dir, models))

(***************************************************************************)
(* cast_ray (lines 198-237).  A frame holds the arguments and locals of    *)
(* one invocation and its position pc:                                     *)
(*   "entry"         at line 202                                           *)
(*   "refract"       at line 211, after fresnel                            *)
(*   "refract_wait"  inside the call of line 214                           *)
(*   "reflect"       at line 217                                           *)
(*   "reflect_wait"  inside the call of line 219                           *)
(*   "lights"        in the loop of lines 222-234, at light i              *)
(***************************************************************************)
Background == Vec3f(Tenths(2), Tenths(7), Tenths(8))

Frame(id, orig, dir, depth) ==
    [id |-> id, orig |-> orig, dir |-> dir, depth |-> depth, pc |-> "entry",
     point |-> ZeroVec, N |-> ZeroVec, material |-> DefaultMaterial, kr |-> NotFinite,
     refract_color |-> ZeroVec, reflect_color |-> ZeroVec,
     i |-> 1, diffuse_light_intensity |-> 0, specular_light_intensity |-> 0]

\* ray_marching as cast_ray calls it, on freshly constructed outputs
MarchFrom(ms, orig, dir) == RayMarching(orig, dir, ms, ZeroVec, ZeroVec, DefaultMaterial)

\* IsBackground with the depth test off by one
IsBackgroundDeeper(ms, f) == f.depth > 5 \/ ~MarchFrom(ms, f.orig, f.dir).ok

\* IsBackground without the march: only the depth ends the recursion
IsBackgroundByDepth(ms, f) == f.depth > 4

\* "depth > 4 || !ray_marching(...)" of line 202
IsBackground(ms, f) == f.depth > 4 \/ ~MarchFrom(ms, f.orig, f.dir).ok

\* lines 206-209 on the outputs m of the march of line 202
ShadeWith(f, m) ==
    [f EXCEPT !.point = m.hit, !.N = m.N, !.material = m.material,
              !.kr = Fresnel(f.dir, m.N, m.material.refractive_index),
              !.pc = "refract"]

\* lines 202-209: the hit is taken and fresnel computed
Shade(ms, f) == ShadeWith(f, MarchFrom(ms, f.orig, f.dir))

\* the origin of a secondary ray: the point moved by 1e-3 along N, to the
\* side dir leaves on (lines 213, 218, 226)
Offset(point, N, dir) ==
    IF Dot(dir, N) < 0 THEN VSub(point, VScale(N, EPSILON))
    ELSE VAdd(point, VScale(N, EPSILON))

\* a secondary ray along dir from the offset point
SecondaryRay(point, N, dir) == [orig |-> Offset(point, N, dir), dir |-> dir]

\* RefractTaken with the test never met
RefractTakenNever(f) == FALSE

\* the test of line 211
RefractTaken(f) == KrBelowOne(f.kr)

\* lines 212-213
RefractRay(f) ==
    SecondaryRay(f.point, f.N,
                 Normalize(Refract(f.dir, f.N, f.material.refractive_index, ONE)))

\* lines 217-218
ReflectRay(f) == SecondaryRay(f.point, f.N, Normalize(Reflect(f.dir, f.N)))

\* lines 227-229 on the outputs m of the shadow march
ShadowMarch(light_dir, light_distance, shadow_orig, m) ==
    [light_dir |-> light_dir, light_distance |-> light_distance,
     shadow_orig |-> shadow_orig, ok |-> m.ok, shadow_pt |-> m.hit,
     plane |-> m.plane, exit |-> m.exit]

\* lines 226-229
ShadowFrom(ms, light_dir, light_distance, shadow_orig) ==
    ShadowMarch(light_dir, light_distance, shadow_orig,
                MarchFrom(ms, shadow_orig, light_dir))

\* lines 223-229
ShadowToward(ms, f, light_dir, light_distance) ==
    ShadowFrom(ms, light_dir, light_distance, Offset(f.point, f.N, light_dir))

\* what one iteration of the light loop computes before its test
Shadow(ms, f, light) ==
    ShadowToward(ms, f, Normalize(VSub(light.position, f.point)),
                 Norm(VSub(light.position, f.point)))

\* Occluded by any hit, wherever the light is
OccludedByAnyHit(sh) == sh.ok

\* the test of line 229
Occluded(sh) ==
    sh.ok /\ Norm(VSub(sh.shadow_pt, sh.shadow_orig)) < sh.light_distance

\* line 230: continue
LightSkipped(f) == [f EXCEPT !.i = f.i + 1]

\* line 232
DiffuseTerm(f, light, light_dir) == Mul(light.intensity, Max(0, Dot(light_dir, f.N)))

\* line 233
SpecularTerm(f, light, light_dir) ==
    Mul(Powf(Max(0, Dot(VNeg(Reflect(VNeg(light_dir), f.N)), f.dir)),
             f.material.specular_exponent),
        light.intensity)

\* lines 232-233
LightAdded(f, light, sh) ==
    [f EXCEPT
       !.i = f.i + 1,
       !.diffuse_light_intensity = @ + DiffuseTerm(f, light, sh.light_dir),
       !.specular_light_intensity = @ + SpecularTerm(f, light, sh.light_dir)]

\* lines 229-233 on the shadow march sh
LightIter(f, light, sh) ==
    IF Occluded(sh) THEN LightSkipped(f) ELSE LightAdded(f, light, sh)

\* the caller's frame once the call it waits in has returned color;
\* line 221 follows the second call
Resume(caller, color) ==
    IF caller.pc = "refract_wait"
    THEN [caller EXCEPT !.refract_color = color, !.pc = "reflect"]
    ELSE [caller EXCEPT !.reflect_color = color, !.pc = "lights", !.i = 1,
                        !.diffuse_light_intensity = 0,
                        !.specular_light_intensity = 0]

\* line 236
Composite(f) ==
    VAdd(VAdd(VScale(VScale(f.material.diffuse_color, f.diffuse_light_intensity),
                     f.material.albedo[1]),
              VScale(VScale(Vec3f(ONE, ONE, ONE), f.specular_light_intensity),
                     f.material.albedo[2])),
         VAdd(VScale(f.reflect_color, f.material.albedo[3]),
              VScale(f.refract_color, f.material.albedo[4])))

\* the loop of lines 222-234 from light f.i on
RECURSIVE LightLoop(_, _, _)
LightLoop(ms, ls, f) ==
    IF f.i > Len(ls) THEN f
    ELSE LightLoop(ms, ls, LightIter(f, ls[f.i], Shadow(ms, f, ls[f.i])))

RECURSIVE CastRay(_, _, _, _, _)
\* line 214 from the ray r
CastRefractInto(ms, ls, f, r) ==
    Resume([f EXCEPT !.pc = "refract_wait"],
           CastRay(r.orig, r.dir, ms, ls, f.depth + 1))

\* lines 211-215
CastRefract(ms, ls, f) ==
    IF RefractTaken(f) THEN CastRefractInto(ms, ls, f, RefractRay(f))
    ELSE [f EXCEPT !.pc = "reflect"]

\* line 219 from the ray r
CastReflectInto(ms, ls, f, r) ==
    Resume([f EXCEPT !.pc = "reflect_wait"],
           CastRay(r.orig, r.dir, ms, ls, f.depth + 1))

\* lines 217-219
CastReflect(ms, ls, f) == CastReflectInto(ms, ls, f, ReflectRay(f))

\* lines 206-236 on the outputs m of the march of line 202
CastShaded(ms, ls, f, m) ==
    IF f.depth > 4 \/ ~m.ok THEN Background
    ELSE Composite(LightLoop(ms, ls,
                             CastReflect(ms, ls, CastRefract(ms, ls, ShadeWith(f, m)))))

\* cast_ray as a function of its arguments: the colour it returns
CastRay(orig, dir, ms, ls, depth) ==
    CastShaded(ms, ls, Frame(0, orig, dir, depth), MarchFrom(ms, orig, dir))

(***************************************************************************)
(* The scenes, lights and rays the model runs on.  The materials, the four *)
(* spheres and the three lights of main (lines 270-284) are among them.    *)
(***************************************************************************)
ivory == Material(0, <<Tenths(6), Tenths(3), Tenths(1), 0>>,
                  Vec3f(Tenths(4), Tenths(4), Tenths(3)), 50)
glass == Material(Tenths(15), <<0, Tenths(5), Tenths(1), Tenths(8)>>,
                  Vec3f(Tenths(6), Tenths(7), Tenths(8)), 125)
red_rubber == Material(0, <<Tenths(9), Tenths(1), 0, 0>>,
                       Vec3f(Tenths(3), Tenths(1), Tenths(1)), 10)
mirror == Material(0, <<0, 10 * ONE, Tenths(8), 0>>, Vec3f(ONE, ONE, ONE), 1425)

\* the scene of main
MainScene ==
    <<Sphere(Vec3f(-3 * ONE, 0, -16 * ONE), 2 * ONE, ivory),
      Sphere(Vec3f(-ONE, -Tenths(15), -12 * ONE), 2 * ONE, glass),
      Sphere(Vec3f(Tenths(15), -Tenths(5), -18 * ONE), 3 * ONE, red_rubber),
      Sphere(Vec3f(7 * ONE, 5 * ONE, -18 * ONE), 4 * ONE, mirror)>>

\* a glass and a mirror sphere facing each other across the origin
FacingScene ==
    <<Sphere(Vec3f(0, 0, -5 * ONE), 2 * ONE, glass),
      Sphere(Vec3f(0, 0, 5 * ONE), 2 * ONE, mirror)>>

\* a sphere that a vertical ray at x = 0, z = -20 passes at one EPSILON
GrazingScene ==
    <<Sphere(Vec3f(2 * ONE + EPSILON, -ONE, -20 * ONE), 2 * ONE, ivory)>>

\* a sphere of radius EPSILON / 2
TinyScene == <<Sphere(Vec3f(0, 0, -2 * ONE), EPSILON \div 2, red_rubber)>>

\* a sphere farther than MAX_DISTANCE from every point probed
FarScene == <<Sphere(Vec3f(0, 0, -12500 * ONE), 2 * ONE, ivory)>>

Scenes == {<<>>, MainScene, FacingScene, GrazingScene, TinyScene}

MainLights ==
    <<Light(Vec3f(-20 * ONE, 20 * ONE, 20 * ONE), Tenths(15)),
      Light(Vec3f(30 * ONE, 50 * ONE, -25 * ONE), Tenths(18)),
      Light(Vec3f(30 * ONE, 20 * ONE, 30 * ONE), Tenths(17))>>

\* two lights on the z axis: one between the facing spheres, one behind
AxisLights ==
    <<Light(Vec3f(0, 0, ONE), Tenths(15)), Light(Vec3f(0, 0, 15 * ONE), Tenths(17))>>

LightLists == {<<>>, MainLights, AxisLights}

Ray(orig, dir) == [orig |-> orig, dir |-> dir]

Rays ==
    {Ray(ZeroVec, Vec3f(0, 0, -ONE)),
     Ray(ZeroVec, Vec3f(0, 0, ONE)),
     Ray(Vec3f(0, 0, -20 * ONE), Vec3f(0, -ONE, 0)),
     Ray(ZeroVec, Normalize(Vec3f(ONE \div 2, -(ONE \div 2), -Tenths(17)))),
     Ray(ZeroVec, Normalize(Vec3f(-3 * ONE, 0, -16 * ONE)))}

\* the largest depth argument a top-level call is given
MaxDepthArg == 5

(***************************************************************************)
(* State.                                                                  *)
(***************************************************************************)
VARIABLES
    models,       \* the primitives of the scene, in order
    lights,       \* the lights of the scene, in order
    stack,        \* the frames of the cast_ray invocations in progress
    ret,          \* the colour the last finished invocation returned
    calls,        \* every cast_ray invocation started so far, by its number
    clock,        \* the number of steps cast_ray has taken so far
    lastLight,    \* what the last iteration of a light loop saw and did
    probe,        \* the arguments of the last direct scene_sdf / ray_marching call
    answer,       \* what that call returned
    phase,        \* where render is: "parallel", "serialize", "closed"; else "none"
    framebuffer,  \* render's framebuffer, by slot
    row,          \* for each worker thread the row it renders, if any
    col,          \* for each worker thread the next pixel of its row
    taken,        \* the rows handed to a worker so far
    written,      \* for each slot the pixel tasks that wrote it, in order
    reads,        \* for each slot read by the serializer, the tasks finished then
    next,         \* the serializer's loop index
    ofs,          \* the bytes written to out.ppm
    run,          \* which run of render this is
    first,        \* the framebuffer and the bytes the first run ended with
    image         \* what cast_ray returns for each pixel: it depends on the
                  \* scene and the pixel alone, so it is computed once

sceneVars == <<models, lights>>
castVars == <<stack, ret, calls, clock, lastLight>>
probeVars == <<probe, answer>>
renderVars ==
    <<phase, framebuffer, row, col, taken, written, reads, next, ofs, run, first, image>>
vars == <<models, lights, stack, ret, calls, clock, lastLight, probe, answer,
          phase, framebuffer, row, col, taken, written, reads, next, ofs, run, first,
          image>>

NoLight == [seen |-> FALSE]
NoProbe == [kind |-> "none"]

\* no top-level cast_ray call is in progress
CastIdle ==
    /\ stack = <<>>
    /\ calls = <<>>
    /\ ret = ZeroVec
    /\ clock = 0
    /\ lastLight = NoLight

\* no direct call has been made
ProbeIdle == probe = NoProbe /\ answer = NoProbe

\* render is not running
RenderIdle ==
    /\ phase = "none"
    /\ framebuffer = <<>>
    /\ row = <<>>
    /\ col = <<>>
    /\ taken = {}
    /\ written = <<>>
    /\ reads = <<>>
    /\ next = 0
    /\ ofs = <<>>
    /\ run = 0
    /\ first = <<>>
    /\ image = <<>>

CallRecord(parent, role, orig, dir, depth, level, start) ==
    [parent |-> parent, role |-> role, orig |-> orig, dir |-> dir, depth |-> depth,
     level |-> level, start |-> start, end |-> 0, shaded |-> FALSE, kr |-> NotFinite]

(***************************************************************************)
(* cast_ray, step by step.                                                 *)
(***************************************************************************)
Top == stack[Len(stack)]
SetTop(f) == [stack EXCEPT ![Len(stack)] = f]

\* the frames below the top one, the caller resumed with color
Popped(rest, color) == [rest EXCEPT ![Len(rest)] = Resume(rest[Len(rest)], color)]

\* the top invocation returns color to its caller
Return(color) ==
    /\ ret' = color
    /\ calls' = [calls EXCEPT ![Top.id].end = clock + 1]
    /\ clock' = clock + 1
    /\ stack' = IF Len(stack) = 1 THEN <<>>
                 ELSE Popped(SubSeq(stack, 1, Len(stack) - 1), color)

\* the top invocation calls cast_ray(r.orig, r.dir, models, lights, depth + 1)
Call(role, waitpc, r) ==
    /\ stack' = Append(SetTop([Top EXCEPT !.pc = waitpc]),
                        Frame(Len(calls) + 1, r.orig, r.dir, Top.depth + 1))
    /\ calls' = Append(calls, CallRecord(Top.id, role, r.orig, r.dir, Top.depth + 1,
                                          Len(stack) + 1, clock + 1))
    /\ clock' = clock + 1

\* a top-level call cast_ray(orig, dir, models, lights, depth)
CastInit ==
    /\ models \in Scenes
    /\ lights \in LightLists
    /\ \E r \in Rays, depth \in 0..MaxDepthArg :
          /\ stack = <<Frame(1, r.orig, r.dir, depth)>>
          /\ calls = <<CallRecord(0, "top", r.orig, r.dir, depth, 1, 1)>>
    /\ ret = ZeroVec
    /\ clock = 1
    /\ lastLight = NoLight
    /\ ProbeIdle
    /\ RenderIdle

\* line 203
CastRayBackground ==
    /\ stack # <<>> /\ Top.pc = "entry"
    /\ IsBackground(models, Top)
    /\ Return(Background)
    /\ UNCHANGED <<sceneVars, lastLight, probeVars, renderVars>>

\* lines 206-209 leave the frame f
CastRayHitTo(f) ==
    /\ stack' = SetTop(f)
    /\ calls' = [calls EXCEPT ![Top.id].shaded = TRUE, ![Top.id].kr = f.kr]

\* lines 202-209
CastRayHit ==
    /\ stack # <<>> /\ Top.pc = "entry"
    /\ ~IsBackground(models, Top)
    /\ CastRayHitTo(Shade(models, Top))
    /\ clock' = clock + 1
    /\ UNCHANGED <<sceneVars, ret, lastLight, probeVars, renderVars>>

\* lines 211-214
RefractCall ==
    /\ stack # <<>> /\ Top.pc = "refract"
    /\ RefractTaken(Top)
    /\ Call("refract", "refract_wait", RefractRay(Top))
    /\ UNCHANGED <<sceneVars, ret, lastLight, probeVars, renderVars>>

\* line 211 when kr is not below 1: refract_color stays black
RefractSkip ==
    /\ stack # <<>> /\ Top.pc = "refract"
    /\ ~RefractTaken(Top)
    /\ stack' = SetTop([Top EXCEPT !.pc = "reflect"])
    /\ clock' = clock + 1
    /\ UNCHANGED <<sceneVars, ret, calls, lastLight, probeVars, renderVars>>

\* lines 217-219
ReflectCall ==
    /\ stack # <<>> /\ Top.pc = "reflect"
    /\ Call("reflect", "reflect_wait", ReflectRay(Top))
    /\ UNCHANGED <<sceneVars, ret, lastLight, probeVars, renderVars>>

LightSeen(f, sh, after) ==
    [seen |-> TRUE, id |-> f.id, i |-> f.i, light |-> lights[f.i], shadow |-> sh,
     before |-> f, after |-> after]

\* the iteration leaves the frame after
LightStepTo(sh, after) ==
    /\ stack' = SetTop(after)
    /\ lastLight' = LightSeen(Top, sh, after)

\* lines 229-233 on the shadow march sh
LightStepOn(sh) == LightStepTo(sh, LightIter(Top, lights[Top.i], sh))

\* one iteration of the loop of lines 222-234
LightStep ==
    /\ stack # <<>> /\ Top.pc = "lights" /\ Top.i <= Len(lights)
    /\ LightStepOn(Shadow(models, Top, lights[Top.i]))
    /\ clock' = clock + 1
    /\ UNCHANGED <<sceneVars, ret, calls, probeVars, renderVars>>

\* line 236
CastRayReturn ==
    /\ stack # <<>> /\ Top.pc = "lights" /\ Top.i > Len(lights)
    /\ Return(Composite(Top))
    /\ UNCHANGED <<sceneVars, lastLight, probeVars, renderVars>>

CastNext ==
    \/ CastRayBackground
    \/ CastRayHit
    \/ RefractCall
    \/ RefractSkip
    \/ ReflectCall
    \/ LightStep
    \/ CastRayReturn

Spec == CastInit /\ [][CastNext]_vars

\* cast_ray runs on a thread that is not suspended forever: while it has a
\* step to take, it takes one
FairSpec == Spec /\ WF_vars(CastNext)

(***************************************************************************)
(* scene_sdf and ray_marching called on their own, on a scene and on       *)
(* arguments drawn from the sets below.                                    *)
(***************************************************************************)
MarchScenes == Scenes \cup {FarScene}

\* the origin, the centres of four of the spheres above, a point under a sphere
Points ==
    {ZeroVec,
     Vec3f(0, 0, -5 * ONE),
     Vec3f(0, 0, -2 * ONE),
     Vec3f(-3 * ONE, 0, -16 * ONE),
     Vec3f(2 * ONE + EPSILON, -ONE, -20 * ONE),
     Vec3f(0, -4 * ONE, -20 * ONE)}

\* the rays above, a ray toward the tiles left of the axis, and a vertical
\* ray from a thousand units above the tiles
MarchRays ==
    Rays \cup {Ray(ZeroVec, Normalize(Vec3f(-(ONE \div 2), -(ONE \div 2), -Tenths(19)))),
               Ray(Vec3f(0, 1000 * ONE, -20 * ONE), Vec3f(0, -ONE, 0))}

\* what the caller's normal holds before the call
Normals == {ZeroVec, Vec3f(ONE, 0, 0)}

MarchInit ==
    /\ models \in MarchScenes
    /\ lights = <<>>
    /\ CastIdle
    /\ ProbeIdle
    /\ RenderIdle

\* scene_sdf(point, models, hit_model)
SceneSdfCall ==
    /\ \E point \in Points :
          /\ probe' = [kind |-> "scene_sdf", point |-> point]
          /\ answer' = SceneSdf(point, models)
    /\ UNCHANGED <<sceneVars, castVars, renderVars>>

\* ray_marching(orig, dir, models, hit, N, material)
RayMarchingCall ==
    /\ \E r \in MarchRays, N \in Normals :
          /\ probe' = [kind |-> "ray_marching", orig |-> r.orig, dir |-> r.dir,
                       hit |-> ZeroVec, N |-> N, material |-> DefaultMaterial]
          /\ answer' = RayMarching(r.orig, r.dir, models, ZeroVec, N, DefaultMaterial)
    /\ UNCHANGED <<sceneVars, castVars, renderVars>>

MarchNext == SceneSdfCall \/ RayMarchingCall

SpecMarch == MarchInit /\ [][MarchNext]_vars

(***************************************************************************)
(* render (lines 239-267) on an image of Width x Height pixels.  The rows  *)
(* of the parallel loop are handed to NumWorkers threads in any order; a   *)
(* thread renders the pixels of its row from left to right.  render is run *)
(* twice on the same scene.                                                *)
(***************************************************************************)
Width == 3
Height == 2
NumWorkers == 2

\* tan(fov / 2) for fov = M_PI / 3
TanHalfFov == 1155

Slots == 0..(Width * Height - 1)
Rows == 0..(Height - 1)
Columns == 0..(Width - 1)
Workers == 1..NumWorkers
\* a thread without a row holds the loop bound
NoRow == Height

\* a sphere in front of the camera under a light bright enough to
\* overexpose it
FrontScene == <<Sphere(Vec3f(0, 0, -6 * ONE), 3 * ONE, ivory)>>
FloodLights == <<Light(Vec3f(0, 2 * ONE, 0), 10 * ONE)>>

\* the scenes render is run on; the first is the one main builds
RenderInputs ==
    <<[models |-> MainScene, lights |-> MainLights],
      [models |-> FrontScene, lights |-> FloodLights]>>

\* lines 249-251: the direction through pixel (i, j), before normalize()
PixelDir(i, j) ==
    Vec3f(RDiv((2 * i + 1 - Width) * ONE, 2),
          RDiv((Height - 2 * j - 1) * ONE, 2),
          -FDiv(Height * ONE, 2 * TanHalfFov))

\* the right-hand side of line 252
PixelColor(ms, ls, i, j) == CastRay(ZeroVec, Normalize(PixelDir(i, j)), ms, ls, 0)

\* the pixels i, i + 1, ... of row j
RECURSIVE PixelRow(_, _, _, _)
PixelRow(ms, ls, i, j) ==
    IF i = Width THEN <<>>
    ELSE <<PixelColor(ms, ls, i, j)>> \o PixelRow(ms, ls, i + 1, j)

\* the rows j, j + 1, ...
RECURSIVE PixelRows(_, _, _)
PixelRows(ms, ls, j) ==
    IF j = Height THEN <<>>
    ELSE <<PixelRow(ms, ls, 0, j)>> \o PixelRows(ms, ls, j + 1)

\* the colours of line 252 for every pixel: Pixels(ms, ls)[j + 1][i + 1] is
\* what cast_ray returns for pixel (i, j)
Pixels(ms, ls) == PixelRows(ms, ls, 0)

\* SlotOf with the row stride left out
SlotPacked(i, j) == i + j

\* the index of line 252
SlotOf(i, j) == i + j * Width

\* the pixel tasks that have stored their colour
TasksDone ==
    UNION {{<<written[s][n].i, written[s][n].j>> : n \in 1..Len(written[s])} :
              s \in Slots}

\* the loop ending with nowait: nothing is waited for
NothingAwaited(done) == TRUE

\* the implicit barrier at the end of the parallel loop (line 255)
AllTasksDone(done) == \A i \in Columns, j \in Rows : <<i, j>> \in done

\* lines 262-263
ToneMapBy(c, max) == IF max > ONE THEN VScale(c, FDiv(ONE, max)) ELSE c
ToneMap(c) == ToneMapBy(c, Max(c[1], Max(c[2], c[3])))

\* line 265: (char)(255 * max(0, min(1, x))), as the byte written
Byte(x) == TruncDiv(255 * Max(0, Min(ONE, x)), ONE)
Bytes(c) == <<Byte(c[1]), Byte(c[2]), Byte(c[3])>>

\* line 259
Header == <<"P6", Width, Height, 255>>

\* the framebuffer of line 243 and the threads before the parallel loop
RenderStart ==
    /\ phase = "parallel"
    /\ framebuffer = [s \in Slots |-> ZeroVec]
    /\ row = [w \in Workers |-> NoRow]
    /\ col = [w \in Workers |-> 0]
    /\ taken = {}
    /\ written = [s \in Slots |-> <<>>]
    /\ reads = <<>>
    /\ next = 0
    /\ ofs = <<>>

RenderInit ==
    /\ \E k \in 1..Len(RenderInputs) :
          /\ models = RenderInputs[k].models
          /\ lights = RenderInputs[k].lights
    /\ CastIdle
    /\ ProbeIdle
    /\ RenderStart
    /\ run = 1
    /\ first = <<>>
    /\ image = Pixels(models, lights)

\* thread w is handed row j of the loop of line 247
StartRow(w) ==
    /\ phase # "none"
    /\ row[w] = NoRow
    /\ \E j \in Rows \ taken :
          /\ row' = [row EXCEPT ![w] = j]
          /\ taken' = taken \cup {j}
    /\ col' = [col EXCEPT ![w] = 0]
    /\ UNCHANGED <<sceneVars, castVars, probeVars, phase, framebuffer, written,
                   reads, next, ofs, run, first, image>>

\* thread w stores into slot s the colour of pixel (i, j)
StorePixel(w, i, j, s) ==
    /\ framebuffer' = [framebuffer EXCEPT ![s] = image[j + 1][i + 1]]
    /\ written' = [written EXCEPT ![s] = Append(@, [i |-> i, j |-> j, by |-> w])]

\* lines 248-253: thread w renders the next pixel of its row
RenderPixel(w) ==
    /\ phase # "none"
    /\ row[w] # NoRow
    /\ StorePixel(w, col[w], row[w], SlotOf(col[w], row[w]))
    /\ IF col[w] + 1 = Width
       THEN row' = [row EXCEPT ![w] = NoRow] /\ col' = [col EXCEPT ![w] = 0]
       ELSE col' = [col EXCEPT ![w] = col[w] + 1] /\ UNCHANGED row
    /\ UNCHANGED <<sceneVars, castVars, probeVars, phase, taken, reads, next, ofs,
                   run, first, image>>

\* lines 255-259: the threads have joined, out.ppm is opened and headed
Join ==
    /\ phase = "parallel"
    /\ AllTasksDone(TasksDone)
    /\ phase' = "serialize"
    /\ ofs' = Header
    /\ next' = 0
    /\ UNCHANGED <<sceneVars, castVars, probeVars, framebuffer, row, col, taken,
                   written, reads, run, first, image>>

\* lines 261-265 on c = framebuffer[next] after line 263
SerializeTo(c) ==
    /\ framebuffer' = [framebuffer EXCEPT ![next] = c]
    /\ ofs' = ofs \o Bytes(c)

\* lines 260-266: one iteration of the loop that writes the pixels
SerializePixel ==
    /\ phase = "serialize"
    /\ next < Height * Width
    /\ reads' = Append(reads, [slot |-> next, finished |-> TasksDone,
                               writes |-> Len(written[next])])
    /\ SerializeTo(ToneMap(framebuffer[next]))
    /\ next' = next + 1
    /\ UNCHANGED <<sceneVars, castVars, probeVars, phase, row, col, taken, written,
                   run, first, image>>

\* line 267
Close ==
    /\ phase = "serialize"
    /\ next = Height * Width
    /\ phase' = "closed"
    /\ UNCHANGED <<sceneVars, castVars, probeVars, framebuffer, row, col, taken,
                   written, reads, next, ofs, run, first, image>>

\* render is called again on the same primitives and lights
SecondRun ==
    /\ phase = "closed"
    /\ run = 1
    /\ first' = [framebuffer |-> framebuffer, ofs |-> ofs]
    /\ run' = 2
    /\ phase' = "parallel"
    /\ framebuffer' = [s \in Slots |-> ZeroVec]
    /\ row' = [w \in Workers |-> NoRow]
    /\ col' = [w \in Workers |-> 0]
    /\ taken' = {}
    /\ written' = [s \in Slots |-> <<>>]
    /\ reads' = <<>>
    /\ next' = 0
    /\ ofs' = <<>>
    /\ UNCHANGED <<sceneVars, castVars, probeVars, image>>

RenderNext ==
    \/ \E w \in Workers : StartRow(w)
    \/ \E w \in Workers : RenderPixel(w)
    \/ Join
    \/ SerializePixel
    \/ Close
    \/ SecondRun

SpecRender == RenderInit /\ [][RenderNext]_vars

(***************************************************************************)
(* Properties of scene_sdf.                                                *)
(***************************************************************************)
Sentinel == [dist |-> MAX_DISTANCE, hit_model |-> NullModel]

\* the primitives whose distance at point is in [0, limit)
Within(point, limit) ==
    {k \in 1..Len(models) :
        Sdf(models[k], point) >= 0 /\ Sdf(models[k], point) < limit}

\* a is the least distance among the primitives of near, reached by a.hit_model
LeastOf(a, point, near) ==
    /\ a.hit_model \in near
    /\ a.dist = Sdf(models[a.hit_model], point)
    /\ \A k \in near : a.dist <= Sdf(models[k], point)

\* scene_sdf answers the sentinel exactly when near is empty, otherwise
\* the least distance in near
MinimumOver(a, point, near) ==
    /\ (a = Sentinel) <=> (near = {})
    /\ near # {} => LeastOf(a, point, near)

\* C2 as claimed: scene_sdf returns the minimum of the nonnegative distances
\* with a primitive that achieves it, and the sentinel exactly when no
\* primitive has a nonnegative distance at the point.
C2_MinNonnegative ==
    probe.kind = "scene_sdf" =>
        MinimumOver(answer, probe.point, Within(probe.point, FLT_MAX))

\* C2 amended: scene_sdf returns the minimum of the distances that are
\* nonnegative and below MAX_DISTANCE, with a primitive that achieves it
\* (never one with a negative distance), and the sentinel exactly when no
\* primitive has a distance in [0, MAX_DISTANCE).
C2_MinWithinMaxDistance ==
    probe.kind = "scene_sdf" =>
        MinimumOver(answer, probe.point, Within(probe.point, MAX_DISTANCE))

\* scene_sdf passed over a primitive the point is inside of and returned
\* another one
C2_Witness ==
    /\ probe.kind = "scene_sdf"
    /\ answer.hit_model # NullModel
    /\ \E k \in 1..Len(models) : Sdf(models[k], probe.point) < 0

(***************************************************************************)
(* Properties of ray_marching.                                             *)
(***************************************************************************)
Odd(n) == n % 2 = 1
FloorHalf(a) == a \div (2 * ONE)
CeilHalf(a) == -((-a) \div (2 * ONE))

\* the march ended on the checkerboard branch of lines 161-166
OnTiles == probe.kind = "ray_marching" /\ answer.plane

\* C3 as claimed: on a valid ground-plane hit the tile is light gray exactly
\* when floor(0.5*hit.x + 1000) + floor(0.5*hit.z) is odd, brown otherwise.
C3_FloorParity ==
    OnTiles =>
        answer.material.diffuse_color =
            IF Odd(FloorHalf(answer.hit[1] + 2000 * ONE) + FloorHalf(answer.hit[3]))
            THEN LightGray ELSE Brown

\* C3 amended: on a valid ground-plane hit the tile is light gray exactly
\* when floor(0.5*hit.x + 1000) + ceiling(0.5*hit.z) is odd (the int
\* conversion rounds toward zero and 0.5*hit.z is negative), brown otherwise.
C3_TruncParity ==
    OnTiles =>
        answer.material.diffuse_color =
            IF Odd(FloorHalf(answer.hit[1] + 2000 * ONE) + CeilHalf(answer.hit[3]))
            THEN LightGray ELSE Brown

\* a light gray tile whose 0.5*hit.z is not a whole number
C3_Witness ==
    /\ OnTiles
    /\ answer.hit[3] % (2 * ONE) # 0
    /\ answer.material.diffuse_color = LightGray

\* the conditions on the plane point at distance t along the ray
PlaneHitAt(t, pt) ==
    /\ t > 0
    /\ Abs(pt[1]) < 10 * ONE
    /\ pt[3] < -10 * ONE /\ pt[3] > -30 * ONE
    /\ t < 1000 * ONE

PlaneHitAfter(orig, dir, t) == PlaneHitAt(t, VAdd(orig, VScale(dir, t)))

\* the ray meets the tiles of the plane y = -4 within 1000 units
PlaneHit(orig, dir) ==
    /\ Abs(dir[2]) > EPSILON
    /\ PlaneHitAfter(orig, dir, FDiv(-(orig[2] + 4 * ONE), dir[2]))

\* C7: a ray_marching call whose loop ends without a primitive hit, by the
\* early stop or by exhausting the 128 steps, reports a hit exactly when
\* |dir.y| > EPSILON, t > 0, |hit.x| < 10, -30 < hit.z < -10 and t < 1000.
C7_GroundPlaneFallback ==
    (probe.kind = "ray_marching" /\ answer.exit \in {"break", "budget"}) =>
        (answer.ok <=> PlaneHit(probe.orig, probe.dir))

\* the step budget was exhausted beside a sphere and the plane was hit
C7_Witness ==
    /\ probe.kind = "ray_marching"
    /\ answer.exit = "budget"
    /\ answer.steps = MAX_MARCHING_STEPS
    /\ answer.ok /\ answer.plane

\* the march hit a primitive at a point within EPSILON of its centre
DegenerateHit ==
    /\ probe.kind = "ray_marching"
    /\ answer.exit = "hit"
    /\ Norm(VSub(answer.hit, models[answer.hit_model].center)) < EPSILON

\* C10: when ray_marching hits a primitive whose try_get_normal fails, it
\* still returns success with the hit point and the primitive's material
\* written, and the normal is exactly what the caller passed in.
C10_NormalFailureNonFatal ==
    DegenerateHit =>
        /\ answer.ok
        /\ ~answer.normal_ok
        /\ answer.hit = VAdd(probe.orig, VScale(probe.dir, answer.depth))
        /\ answer.material = models[answer.hit_model].material
        /\ answer.N = probe.N

\* the normal query failed under a caller whose normal was not zero
C10_Witness == DegenerateHit /\ probe.N # ZeroVec /\ answer.ok

(***************************************************************************)
(* Properties of cast_ray.                                                 *)
(***************************************************************************)
\* the top-level call was made with depth argument 0
TopAtDepthZero == calls[1].depth = 0

\* the top-level call has returned
Returned == stack = <<>>

\* no invocation is at a level above top (the top-level call is level 1)
LevelsAtMost(top) == \A k \in 1..Len(calls) : calls[k].level <= top

\* C1 as claimed, its bound on the nesting: under a top-level call with depth
\* argument 0 no invocation is at a level above 5.
C1_AtMostFiveLevels == TopAtDepthZero => LevelsAtMost(5)

\* an invocation at level 6 returns at once: it takes no hit and calls nothing
LastLevelIsLeaf ==
    \A k \in 1..Len(calls) :
        calls[k].level = 6 =>
            /\ ~calls[k].shaded
            /\ \A c \in 1..Len(calls) : calls[c].parent # k

\* the nesting, the number of invocations and the number of steps under a
\* call at depth 0: an invocation takes at most four steps and one per light
C1_Bounds ==
    TopAtDepthZero =>
        /\ LevelsAtMost(6)
        /\ Len(calls) <= 63
        /\ LastLevelIsLeaf
        /\ clock <= 1 + 63 * (4 + Len(lights))

\* until the top-level call has returned, the invocation on top of the stack
\* is at a line it can leave: the actions at "entry", at "refract" and at
\* "lights" come in pairs with complementary guards, ReflectCall has none
CanStep == Returned \/ Top.pc \in {"entry", "refract", "reflect", "lights"}

\* C1 amended: a top-level cast_ray call with depth argument 0 starts at
\* most 63 invocations, none at a level above 6 (5 recursive extensions),
\* those at level 6 return the background at once, and the call terminates:
\* it always has a step to take until it returns, every step advances the
\* clock, and the clock is bounded.
C1_BoundedAndTerminates == [](C1_Bounds /\ CanStep) /\ [][clock' = clock + 1]_vars

\* six invocations are nested under a top-level call at depth 0
C1_Witness == TopAtDepthZero /\ Len(stack) = 6 /\ Top.depth = 5

\* the scene is empty and the ray of the top-level call misses the tiles
EmptyMiss == models = <<>> /\ ~PlaneHit(calls[1].orig, calls[1].dir)

\* C6: on a scene without primitives, a ray that does not meet the
\* ground-plane hit conditions gets exactly the background colour, whatever
\* the lights and the depth argument, and no recursive call is made.
C6_EmptySceneBackground ==
    EmptyMiss =>
        /\ Len(calls) = 1
        /\ ~calls[1].shaded
        /\ Returned => ret = Background

\* such a call at depth 0 has returned the background
C6_Witness ==
    EmptyMiss /\ TopAtDepthZero /\ Returned /\ ret = Background /\ lights # <<>>

\* the shadow march sh missed, or hit no closer than the light
Unshadowed(sh) ==
    ~sh.ok \/ Norm(VSub(sh.shadow_pt, sh.shadow_orig)) >= sh.light_distance

\* the iteration added exactly its two terms to the intensities
TermsAdded(before, after, light, sh) ==
    /\ after.diffuse_light_intensity =
           before.diffuse_light_intensity + DiffuseTerm(before, light, sh.light_dir)
    /\ after.specular_light_intensity =
           before.specular_light_intensity + SpecularTerm(before, light, sh.light_dir)

\* the iteration left the intensities alone
NothingAdded(before, after) ==
    /\ after.diffuse_light_intensity = before.diffuse_light_intensity
    /\ after.specular_light_intensity = before.specular_light_intensity

\* C8: in the light loop of a shaded hit, a light adds its diffuse and
\* specular terms exactly when its shadow march reports no hit or a hit not
\* strictly closer than the light; otherwise it contributes nothing.
C8_LightContribution ==
    lastLight.seen =>
        /\ lastLight.shadow.shadow_orig =
               Offset(lastLight.before.point, lastLight.before.N,
                      lastLight.shadow.light_dir)
        /\ IF Unshadowed(lastLight.shadow)
           THEN TermsAdded(lastLight.before, lastLight.after, lastLight.light,
                           lastLight.shadow)
           ELSE NothingAdded(lastLight.before, lastLight.after)

\* a shadow march hit something beyond the light, and the light was added
C8_Witness ==
    /\ lastLight.seen
    /\ lastLight.shadow.ok
    /\ Unshadowed(lastLight.shadow)
    /\ lastLight.after.diffuse_light_intensity > lastLight.before.diffuse_light_intensity

\* the invocations k started in the given role
Children(k, role) ==
    {c \in 1..Len(calls) : calls[c].parent = k /\ calls[c].role = role}

HasReturned(k) == calls[k].end > 0

\* the recursive calls of the shaded invocation k so far
RecursionOrder(k) ==
    /\ Cardinality(Children(k, "reflect")) <= 1
    /\ Cardinality(Children(k, "refract")) <= 1
    /\ Children(k, "refract") # {} => KrBelowOne(calls[k].kr)
    /\ \A c \in Children(k, "reflect") \cup Children(k, "refract") :
          calls[c].depth = calls[k].depth + 1
    /\ \A b \in Children(k, "reflect") :
          /\ KrBelowOne(calls[k].kr) => Children(k, "refract") # {}
          /\ \A a \in Children(k, "refract") :
                HasReturned(a) /\ calls[a].end < calls[b].start

\* a frame past line 215 whose kr was not below 1 holds a black refract_color
RefractColorBlack(f) ==
    (f.pc \in {"reflect", "reflect_wait", "lights"} /\ ~KrBelowOne(f.kr)) =>
        f.refract_color = ZeroVec

\* C9: a cast_ray invocation that shades a hit always makes the reflection
\* call at depth + 1, makes the refraction call at depth + 1 exactly when
\* kr < 1 (otherwise refract_color stays black), and the refraction call
\* has returned before the reflection call starts.
C9_RefractThenReflect ==
    /\ \A k \in 1..Len(calls) :
          /\ ~calls[k].shaded => Children(k, "reflect") \cup Children(k, "refract") = {}
          /\ calls[k].shaded => RecursionOrder(k)
          /\ (calls[k].shaded /\ HasReturned(k)) => Children(k, "reflect") # {}
    /\ \A n \in 1..Len(stack) : RefractColorBlack(stack[n])

\* an invocation has returned after both calls; another one after the
\* reflection call alone
C9_Witness ==
    /\ \E k \in 1..Len(calls) :
          /\ HasReturned(k)
          /\ Children(k, "refract") # {} /\ Children(k, "reflect") # {}
    /\ \E k \in 1..Len(calls) :
          /\ HasReturned(k)
          /\ Children(k, "refract") = {} /\ Children(k, "reflect") # {}

(***************************************************************************)
(* Properties of render.                                                   *)
(***************************************************************************)
\* slot s was written only by the task of its own pixel, and at most once
OwnTaskOnly(s) ==
    /\ Len(written[s]) <= 1
    /\ \A n \in 1..Len(written[s]) : written[s][n].i + written[s][n].j * Width = s

\* the serializer read the slot after every pixel task had finished
ReadAfterAll(r) ==
    /\ r.writes = 1
    /\ \A i \in Columns, j \in Rows : <<i, j>> \in r.finished

\* C4: under every interleaving of the workers no framebuffer slot is
\* written by two pixel tasks, every slot i + j*width is written exactly
\* once, by the task of pixel (i, j), and the tone-map/serialize step reads
\* a slot only after all pixel tasks have finished.
C4_DisjointSlotsAndBarrier ==
    /\ \A s \in Slots : OwnTaskOnly(s)
    /\ phase \in {"serialize", "closed"} => \A s \in Slots : Len(written[s]) = 1
    /\ \A n \in 1..Len(reads) : ReadAfterAll(reads[n])

\* the image was written by two threads and serialized
C4_Witness ==
    /\ phase = "closed"
    /\ Len(reads) = Width * Height
    /\ \E s, t \in Slots : written[s][1].by # written[t][1].by

\* C5: two runs of render on the same primitives and lights end with the
\* same framebuffer and the same bytes in out.ppm, whatever order the
\* workers processed the pixels in.
C5_SameOutputTwice ==
    (run = 2 /\ phase = "closed") =>
        framebuffer = first.framebuffer /\ ofs = first.ofs

\* the second run has ended, on an image with an overexposed pixel
C5_Witness ==
    /\ run = 2 /\ phase = "closed"
    /\ ofs = first.ofs /\ Len(ofs) = 4 + 3 * Width * Height
    /\ \E i \in Columns, j \in Rows :
          /\ Max(image[j + 1][i + 1][1], image[j + 1][i + 1][2]) > ONE
          /\ framebuffer[i + j * Width] = ToneMap(image[j + 1][i + 1])

=============================================================================
